---- MODULE Spec2Model ----
(***************************************************************************)
(* Segmented file system client (src/src/main.rs): the packet decoder,     *)
(* the FileManager reassembly store, its completion check, the file        *)
(* writer, and the receive loop of main.                                   *)
(***************************************************************************)
EXTENDS Integers, Sequences, FiniteSets, TLC

VARIABLES
    files,     \* FileManager.files: file_id -> (name, expected, packets)
    pc,        \* position of main: "loop", "write", "done", or how it ended
    buf,       \* buf[..len]: Some(datagram most recently received), None before
    todo,      \* write_all_files: the file_ids its for loop has not visited yet
    disk,      \* the storage sink: path -> bytes of every file created so far
    nwrites,   \* how many times write_all_files has been entered
    applied,   \* the packets handed to process_packet so far, oldest first
    pending    \* the sender's packets that have not been applied yet

vars == <<files, pc, buf, todo, disk, nwrites, applied, pending>>

---------------------------------------------------------------------------
(* Bounds of the model and constants of the program.                       *)

U16Max == 65535
ExpectedFiles == 3

\* largest ordinary chunk index of the store-level specification
StoreMaxIdx == 0
\* largest ordinary chunk index a session datagram carries
SessMaxIdx == 0
\* largest ordinary chunk index of the trace specification
TraceMaxIdx == 1
\* longest sequence of packets the trace specification applies
MaxTrace == 3
\* largest index of a file's last chunk in the protocol specification
MaxK == 2

\* the file_ids in play: the three expected files and one stray
FileIds == {1, 2, 3, 4}

---------------------------------------------------------------------------
(* Option<T>: None is the empty tuple, Some(x) the one-element tuple.      *)

None == <<>>
Some(x) == <<x>>
IsSome(o) == o # None
Unwrap(o) == o[1]

(* The two packet variants and the stored group.                           *)

HeaderPacket(id, nm) == [kind |-> "Header", file_id |-> id, file_name |-> nm]

DataPacket(id, n, last, d) ==
    [kind |-> "Data", file_id |-> id, packet_number |-> n,
     is_last_packet |-> last, data |-> d]

\* (Option<OsString>, Option<u16>, HashMap<u16, Vec<u8>>)::default()
DefaultGroup == [name |-> None, expected |-> None, packets |-> <<>>]

\* Variant of MapInsert that keeps the value of a key already present
\* (entry(k).or_insert(v) in place of insert(k, v)).
MapInsertKeep(m, k, v) == IF k \in DOMAIN m THEN m ELSE (k :> v) @@ m

\* HashMap::insert: add the key or overwrite its value
MapInsert(m, k, v) == (k :> v) @@ m

\* Variant of OrDefault that stores a fresh default group even when the key
\* is present (insert(k, default) in place of entry(k).or_default()).
OrDefaultReset(fs, id) ==
    [x \in (DOMAIN fs) \cup {id} |->
        IF x = id THEN [name |-> None, expected |-> None, packets |-> <<>>]
        ELSE fs[x]]

\* HashMap::entry(k).or_default(): the map with k present
OrDefault(fs, id) ==
    IF id \in DOMAIN fs THEN fs
    ELSE [x \in (DOMAIN fs) \cup {id} |-> IF x = id THEN DefaultGroup ELSE fs[x]]

---------------------------------------------------------------------------
(* Packet decoder: TryFrom<&[u8]> for Packet.                              *)

RECURSIVE ValidUtf8(_)
\* String::from_utf8: whether the bytes are well-formed UTF-8
ValidUtf8(b) ==
    IF b = <<>> THEN TRUE
    ELSE LET n == Len(b)
             c == b[1]
             Cont(i) == i <= n /\ b[i] >= 128 /\ b[i] <= 191
             Rest(k) == ValidUtf8(SubSeq(b, k + 1, n))
         IN  IF c <= 127 THEN Rest(1)
             ELSE IF c >= 194 /\ c <= 223 THEN Cont(2) /\ Rest(2)
             ELSE IF c = 224 THEN
                 n >= 2 /\ b[2] >= 160 /\ b[2] <= 191 /\ Cont(3) /\ Rest(3)
             ELSE IF c = 237 THEN
                 n >= 2 /\ b[2] >= 128 /\ b[2] <= 159 /\ Cont(3) /\ Rest(3)
             ELSE IF c >= 225 /\ c <= 239 THEN Cont(2) /\ Cont(3) /\ Rest(3)
             ELSE IF c = 240 THEN
                 n >= 2 /\ b[2] >= 144 /\ b[2] <= 191
                        /\ Cont(3) /\ Cont(4) /\ Rest(4)
             ELSE IF c = 244 THEN
                 n >= 2 /\ b[2] >= 128 /\ b[2] <= 143
                        /\ Cont(3) /\ Cont(4) /\ Rest(4)
             ELSE IF c >= 241 /\ c <= 243 THEN
                 Cont(2) /\ Cont(3) /\ Cont(4) /\ Rest(4)
             ELSE FALSE

ParseErr(msg) == [ok |-> FALSE, message |-> msg]
ParseOk(p) == [ok |-> TRUE, packet |-> p]

\* Variant of from_be_bytes that reads the low byte first (from_le_bytes).
from_le_bytes(hi, lo) == lo * 256 + hi

\* u16::from_be_bytes([hi, lo])
from_be_bytes(hi, lo) == hi * 256 + lo

\* Variant of try_from that asks a data packet for at least one payload byte
\* (bytes.len() < 5 in place of bytes.len() < 4).
try_from_ShortData(bytes) ==
    IF Len(bytes) < 2 THEN ParseErr("Packet too short")
    ELSE LET status == bytes[1]
             file_id == bytes[2]
         IN  IF status % 2 = 0
             THEN LET rest == SubSeq(bytes, 3, Len(bytes))
                  IN  IF ValidUtf8(rest)
                      THEN ParseOk(HeaderPacket(file_id, rest))
                      ELSE ParseErr("Invalid UTF-8 sequence")
             ELSE IF Len(bytes) < 5 THEN ParseErr("Data packet too short")
             ELSE ParseOk(DataPacket(file_id,
                                     from_be_bytes(bytes[3], bytes[4]),
                                     status % 4 = 3,
                                     SubSeq(bytes, 5, Len(bytes))))

\* Variant of try_from that compares the whole status byte with 3
\* (status == 3 in place of status % 4 == 3).
try_from_StatusEq(bytes) ==
    IF Len(bytes) < 2 THEN ParseErr("Packet too short")
    ELSE LET status == bytes[1]
             file_id == bytes[2]
         IN  IF status % 2 = 0
             THEN LET rest == SubSeq(bytes, 3, Len(bytes))
                  IN  IF ValidUtf8(rest)
                      THEN ParseOk(HeaderPacket(file_id, rest))
                      ELSE ParseErr("Invalid UTF-8 sequence")
             ELSE IF Len(bytes) < 4 THEN ParseErr("Data packet too short")
             ELSE ParseOk(DataPacket(file_id,
                                     from_be_bytes(bytes[3], bytes[4]),
                                     status = 3,
                                     SubSeq(bytes, 5, Len(bytes))))

try_from(bytes) ==
    IF Len(bytes) < 2 THEN ParseErr("Packet too short")
    ELSE LET status == bytes[1]
             file_id == bytes[2]
         IN  IF status % 2 = 0
             THEN LET rest == SubSeq(bytes, 3, Len(bytes))
                  IN  IF ValidUtf8(rest)
                      THEN ParseOk(HeaderPacket(file_id, rest))
                      ELSE ParseErr("Invalid UTF-8 sequence")
             ELSE IF Len(bytes) < 4 THEN ParseErr("Data packet too short")
             ELSE ParseOk(DataPacket(file_id,
                                     from_be_bytes(bytes[3], bytes[4]),
                                     status % 4 = 3,
                                     SubSeq(bytes, 5, Len(bytes))))

---------------------------------------------------------------------------
(* FileManager.                                                            *)

\* Variant of received_all_packets that does not look at the name.
received_all_packets_NoName(fs) ==
    /\ Cardinality(DOMAIN fs) = ExpectedFiles
    /\ \A id \in DOMAIN fs :
          /\ IsSome(fs[id].expected)
          /\ Cardinality(DOMAIN fs[id].packets) = Unwrap(fs[id].expected)

\* Variant of received_all_packets that accepts three or more groups
\* (self.files.len() >= 3).
received_all_packets_AtLeast(fs) ==
    /\ Cardinality(DOMAIN fs) >= ExpectedFiles
    /\ \A id \in DOMAIN fs :
          /\ IsSome(fs[id].expected)
          /\ Cardinality(DOMAIN fs[id].packets) = Unwrap(fs[id].expected)
          /\ IsSome(fs[id].name)

received_all_packets(fs) ==
    /\ Cardinality(DOMAIN fs) = ExpectedFiles
    /\ \A id \in DOMAIN fs :
          LET g == fs[id]
          IN  IF IsSome(g.expected)
              THEN Cardinality(DOMAIN g.packets) = Unwrap(g.expected)
                   /\ IsSome(g.name)
              ELSE FALSE

\* Variant of SetName that replaces the whole group by one holding only the
\* name (files.insert(file_id, (Some(file_name), None, HashMap::new()))).
SetNameReplace(fs, id, nm) ==
    [x \in (DOMAIN fs) \cup {id} |->
        IF x = id THEN [name |-> Some(nm), expected |-> None, packets |-> <<>>]
        ELSE fs[x]]

\* entry.0 = Some(file_name)
SetName(fs, id, nm) == [OrDefault(fs, id) EXCEPT ![id].name = Some(nm)]

\* Variant of InsertChunk that also clears the name of the group.
InsertChunkClearName(fs, id, n, d) ==
    [OrDefault(fs, id) EXCEPT ![id].packets = MapInsert(@, n, d),
                              ![id].name = None]

\* entry.2.insert(packet_number, data)
InsertChunk(fs, id, n, d) ==
    [OrDefault(fs, id) EXCEPT ![id].packets = MapInsert(@, n, d)]

\* entry.1 = Some(c)
SetExpected(fs, id, c) == [fs EXCEPT ![id].expected = Some(c)]

\* Variant of LastCount that stores the index of the last packet itself
\* (Some(packet_number) in place of Some(packet_number + 1)).
LastCountNoSucc(fs, id, n) ==
    {[files |-> SetExpected(fs, id, n), panicked |-> FALSE]}

\* packet_number + 1 on u16.  The sum does not fit when packet_number is
\* 65535: a build with overflow checks panics there, a build without them
\* wraps to 0.  Each outcome is [files, panicked].
LastCount(fs, id, n) ==
    IF n + 1 <= U16Max
    THEN {[files |-> SetExpected(fs, id, n + 1), panicked |-> FALSE]}
    ELSE {[files |-> SetExpected(fs, id, (n + 1) % (U16Max + 1)),
           panicked |-> FALSE],
          [files |-> fs, panicked |-> TRUE]}

\* Variant of process_packet that takes every Data packet for the last one
\* (the is_last_packet test is missing).
process_packet_AnyLast(fs, p) ==
    IF p.kind = "Header"
    THEN {[files |-> SetName(fs, p.file_id, p.file_name), panicked |-> FALSE]}
    ELSE LastCount(InsertChunk(fs, p.file_id, p.packet_number, p.data),
                   p.file_id, p.packet_number)

\* The outcomes of process_packet on store fs.
process_packet(fs, p) ==
    IF p.kind = "Header"
    THEN {[files |-> SetName(fs, p.file_id, p.file_name), panicked |-> FALSE]}
    ELSE LET fs2 == InsertChunk(fs, p.file_id, p.packet_number, p.data)
         IN  IF p.is_last_packet
             THEN LastCount(fs2, p.file_id, p.packet_number)
             ELSE {[files |-> fs2, panicked |-> FALSE]}

RECURSIVE SortKeysDescending(_)
\* Variant of SortKeys that yields the keys in descending order.
SortKeysDescending(S) ==
    IF S = {} THEN <<>>
    ELSE LET m == CHOOSE x \in S : \A y \in S : x >= y
         IN  <<m>> \o SortKeysDescending(S \ {m})

RECURSIVE SortKeys(_)
\* keys.sort_unstable(): the keys in ascending order
SortKeys(S) ==
    IF S = {} THEN <<>>
    ELSE LET m == CHOOSE x \in S : \A y \in S : x <= y
         IN  <<m>> \o SortKeys(S \ {m})

RECURSIVE ConcatChunks(_, _)
\* for key in keys { file.write_all(packets[key]) }: the bytes written
ConcatChunks(packets, keys) ==
    IF keys = <<>> THEN <<>>
    ELSE packets[Head(keys)] \o ConcatChunks(packets, Tail(keys))

\* the bytes write_all_files writes into the file of one group
FileBytes(g) == ConcatChunks(g.packets, SortKeys(DOMAIN g.packets))

\* File::create(path): the file exists and is empty
CreateFile(dk, nm) == [x \in (DOMAIN dk) \cup {nm} |-> IF x = nm THEN <<>> ELSE dk[x]]

\* what a file holds when a write fails at the j-th key: every earlier chunk,
\* and any part of the failing one
PartialBytes(g, j) ==
    LET keys == SortKeys(DOMAIN g.packets)
        done == ConcatChunks(g.packets, SubSeq(keys, 1, j - 1))
        cur  == g.packets[keys[j]]
    IN  {done \o SubSeq(cur, 1, n) : n \in 0..(Len(cur) - 1)} \cup {done}

---------------------------------------------------------------------------
(* The inputs of the model.                                                *)

\* the name the sender gives file id
NameOf(id) == <<96 + id>>

\* datagrams the session may receive: a header and data datagrams per file,
\* and malformed ones (too short, data too short, name not UTF-8)
SessionDatagrams ==
    {<<0, id>> \o NameOf(id) : id \in FileIds}
    \cup {<<s, id, 0, i, 10 * id + i>> :
             s \in {1, 3}, id \in FileIds, i \in 0..SessMaxIdx}
    \cup {<<>>, <<1>>, <<1, 1>>, <<3, 1, 0>>, <<0, 1, 255>>}

\* the datagrams among them that decode, and those that do not
GoodDatagrams == {d \in SessionDatagrams : try_from(d).ok}
BadDatagrams == {d \in SessionDatagrams : ~try_from(d).ok}

\* the file_ids for which the store-level packets include chunk index 65535
OverflowIds == {1}

\* packets the store-level specification applies
StorePackets ==
    {HeaderPacket(id, NameOf(id)) : id \in FileIds}
    \cup {DataPacket(id, n, last, <<n % 256>>) :
             id \in FileIds, n \in 0..StoreMaxIdx, last \in BOOLEAN}
    \cup {DataPacket(id, U16Max, last, <<U16Max % 256>>) :
             id \in OverflowIds, last \in BOOLEAN}

---------------------------------------------------------------------------
(* main: the receive loop and the call of write_all_files.                 *)

\* Variant of LoopCond that loops only until three file_ids are known.
LoopCondCount(fs) == Cardinality(DOMAIN fs) < ExpectedFiles

\* while !file_manager.received_all_packets()
LoopCond(fs) == ~received_all_packets(fs)

\* sock.recv(&mut buf)? fails
RecvError ==
    /\ pc = "loop" /\ LoopCond(files)
    /\ pc' = "err_io"
    /\ UNCHANGED <<files, buf, todo, disk, nwrites, applied, pending>>

\* Variant of ParseError that skips a datagram that does not decode and goes
\* on receiving.
ParseErrorSkip ==
    /\ pc = "loop" /\ ~received_all_packets(files)
    /\ \E d \in {b \in SessionDatagrams : ~try_from(b).ok} : buf' = Some(d)
    /\ pc' = "loop"
    /\ UNCHANGED <<files, todo, disk, nwrites, applied, pending>>

\* buf[..len].try_into()? fails
ParseError ==
    /\ pc = "loop" /\ LoopCond(files)
    /\ \E d \in BadDatagrams : buf' = Some(d)
    /\ pc' = "err_parse"
    /\ UNCHANGED <<files, todo, disk, nwrites, applied, pending>>

\* io::stdout().flush()? fails after the datagram was decoded
FlushError ==
    /\ pc = "loop" /\ LoopCond(files)
    /\ \E d \in GoodDatagrams : buf' = Some(d)
    /\ pc' = "err_io"
    /\ UNCHANGED <<files, todo, disk, nwrites, applied, pending>>

\* Variant of ProcessDatagram that does not test the loop condition before
\* it receives (the body of a loop without the while test).
ProcessDatagramUntested ==
    /\ pc = "loop"
    /\ \E d \in GoodDatagrams :
          /\ buf' = Some(d)
          /\ \E o \in process_packet(files, try_from(d).packet) :
                /\ files' = o.files
                /\ pc' = IF o.panicked THEN "panic_overflow" ELSE "loop"
    /\ UNCHANGED <<todo, disk, nwrites, applied, pending>>

\* one full iteration: receive, decode, process_packet
ProcessDatagram ==
    /\ pc = "loop" /\ LoopCond(files)
    /\ \E d \in GoodDatagrams :
          /\ buf' = Some(d)
          /\ \E o \in process_packet(files, try_from(d).packet) :
                /\ files' = o.files
                /\ pc' = IF o.panicked THEN "panic_overflow" ELSE "loop"
    /\ UNCHANGED <<todo, disk, nwrites, applied, pending>>

\* the loop condition is false: file_manager.write_all_files() is called
CallWriter ==
    /\ pc = "loop" /\ ~LoopCond(files)
    /\ pc' = "write"
    /\ todo' = DOMAIN files
    /\ nwrites' = nwrites + 1
    /\ UNCHANGED <<files, buf, disk, applied, pending>>

---------------------------------------------------------------------------
(* write_all_files: one step per group the for loop visits.  files.values()*)
(* yields the groups in an arbitrary order.                                *)

\* Variant of WriteCreateError that removes the files written so far before
\* it returns the error.
WriteCreateErrorCleanup ==
    /\ pc = "write"
    /\ \E id \in todo : IsSome(files[id].name)
    /\ pc' = "err_io"
    /\ disk' = <<>>
    /\ UNCHANGED <<files, buf, todo, nwrites, applied, pending>>

\* File::create(..)? fails
WriteCreateError ==
    /\ pc = "write"
    /\ \E id \in todo : IsSome(files[id].name)
    /\ pc' = "err_io"
    /\ UNCHANGED <<files, buf, todo, disk, nwrites, applied, pending>>

\* file.write_all(data)? fails at some key
WriteChunkError ==
    /\ pc = "write"
    /\ \E id \in todo :
          /\ IsSome(files[id].name)
          /\ \E j \in 1..Cardinality(DOMAIN files[id].packets) :
                \E part \in PartialBytes(files[id], j) :
                   disk' = [CreateFile(disk, Unwrap(files[id].name))
                               EXCEPT ![Unwrap(files[id].name)] = part]
    /\ pc' = "err_io"
    /\ UNCHANGED <<files, buf, todo, nwrites, applied, pending>>

\* one group is visited and nothing fails: expect panics when the group has
\* no name, otherwise its file is created and written in full
WriteFile ==
    /\ pc = "write"
    /\ \E id \in todo :
          IF IsSome(files[id].name)
          THEN /\ disk' = [CreateFile(disk, Unwrap(files[id].name))
                              EXCEPT ![Unwrap(files[id].name)] = FileBytes(files[id])]
               /\ todo' = todo \ {id}
               /\ pc' = pc
          ELSE /\ pc' = "panic_missing_name"
               /\ UNCHANGED <<disk, todo>>
    /\ UNCHANGED <<files, buf, nwrites, applied, pending>>

\* every group was visited: Ok(())
WriteReturn ==
    /\ pc = "write" /\ todo = {}
    /\ pc' = "done"
    /\ UNCHANGED <<files, buf, todo, disk, nwrites, applied, pending>>

---------------------------------------------------------------------------
(* Spec: a run of main.                                                    *)

Init ==
    /\ files = <<>>
    /\ pc = "loop"
    /\ buf = None
    /\ todo = {}
    /\ disk = <<>>
    /\ nwrites = 0
    /\ applied = <<>>
    /\ pending = {}

Next ==
    \/ RecvError
    \/ ParseError
    \/ FlushError
    \/ ProcessDatagram
    \/ CallWriter
    \/ WriteCreateError
    \/ WriteChunkError
    \/ WriteFile
    \/ WriteReturn

Spec == Init /\ [][Next]_vars

---------------------------------------------------------------------------
(* SpecStore: any sequence of process_packet calls on one FileManager.     *)

StoreApply ==
    /\ pc = "loop"
    /\ \E p \in StorePackets :
          \E o \in process_packet(files, p) :
             /\ files' = o.files
             /\ pc' = IF o.panicked THEN "panic_overflow" ELSE "loop"
    /\ UNCHANGED <<buf, todo, disk, nwrites, applied, pending>>

NextStore == StoreApply

SpecStore == Init /\ [][NextStore]_vars

---------------------------------------------------------------------------
(* SpecTrace: a bounded sequence of process_packet calls, recorded in      *)
(* applied, followed by one call of write_all_files.                       *)

TraceIds == {1, 2}
TracePayloads == {<<7>>, <<8, 9>>}

TracePackets ==
    {HeaderPacket(id, NameOf(id)) : id \in TraceIds}
    \cup {DataPacket(id, n, last, d) :
             id \in TraceIds, n \in 0..TraceMaxIdx, last \in BOOLEAN,
             d \in TracePayloads}
    \cup {DataPacket(id, U16Max, last, <<7>>) :
             id \in TraceIds, last \in BOOLEAN}

TraceApply ==
    /\ pc = "loop"
    /\ Len(applied) < MaxTrace
    /\ \E p \in TracePackets :
          \E o \in process_packet(files, p) :
             /\ files' = o.files
             /\ applied' = Append(applied, p)
             /\ pc' = IF o.panicked THEN "panic_overflow" ELSE "loop"
    /\ UNCHANGED <<buf, todo, disk, nwrites, pending>>

\* write_all_files called on the store as it stands
TraceCallWriter ==
    /\ pc = "loop"
    /\ pc' = "write"
    /\ todo' = DOMAIN files
    /\ nwrites' = nwrites + 1
    /\ UNCHANGED <<files, buf, disk, applied, pending>>

NextTrace ==
    \/ TraceApply
    \/ TraceCallWriter
    \/ WriteCreateError
    \/ WriteChunkError
    \/ WriteFile
    \/ WriteReturn

SpecTrace == Init /\ [][NextTrace]_vars

---------------------------------------------------------------------------
(* SpecProtocol: a sender's packets for three files, each packet applied   *)
(* exactly once, in any order.                                             *)

\* one Header, and Data 0..k with only k flagged last
SenderPackets(id, k) ==
    {HeaderPacket(id, NameOf(id))}
    \cup {DataPacket(id, n, n = k, <<n % 256>>) : n \in 0..k}

InitProtocol ==
    /\ files = <<>>
    /\ pc = "loop"
    /\ buf = None
    /\ todo = {}
    /\ disk = <<>>
    /\ nwrites = 0
    /\ applied = <<>>
    /\ \E ids \in SUBSET FileIds :
          /\ Cardinality(ids) = ExpectedFiles
          /\ \E k \in [ids -> 0..MaxK] :
                pending = UNION {SenderPackets(id, k[id]) : id \in ids}

ProtocolApply ==
    /\ pc = "loop"
    /\ \E p \in pending :
          \E o \in process_packet(files, p) :
             /\ files' = o.files
             /\ pending' = pending \ {p}
             /\ pc' = IF o.panicked THEN "panic_overflow" ELSE "loop"
    /\ UNCHANGED <<buf, todo, disk, nwrites, applied>>

NextProtocol == ProtocolApply

SpecProtocol == InitProtocol /\ [][NextProtocol]_vars

---------------------------------------------------------------------------
(* SpecLong: the sender's packets for three files, one of them with the    *)
(* largest last index a u16 holds.  The packets of the two short files and *)
(* the long file's header are applied in any order, then the long file's   *)
(* data packets in ascending order.                                        *)

\* the long file is the one with the smallest file_id in play
LongId == CHOOSE id \in FileIds : \A x \in FileIds : id <= x

\* how many chunks of the long file are buffered: the next index to send
LongCount ==
    IF LongId \in DOMAIN files
    THEN Cardinality(DOMAIN files[LongId].packets) ELSE 0

InitLong ==
    /\ files = <<>>
    /\ pc = "loop"
    /\ buf = None
    /\ todo = {}
    /\ disk = <<>>
    /\ nwrites = 0
    /\ applied = <<>>
    /\ pending = {HeaderPacket(LongId, NameOf(LongId))}
                 \cup SenderPackets(2, 0) \cup SenderPackets(3, 0)

LongApply ==
    /\ pc = "loop"
    /\ pending = {}
    /\ LongCount <= U16Max
    /\ \E o \in process_packet(files,
                    DataPacket(LongId, LongCount, LongCount = U16Max, <<>>)) :
          /\ files' = o.files
          /\ pc' = IF o.panicked THEN "panic_overflow" ELSE "loop"
    /\ UNCHANGED <<buf, todo, disk, nwrites, applied, pending>>

NextLong == ProtocolApply \/ LongApply

SpecLong == InitLong /\ [][NextLong]_vars

---------------------------------------------------------------------------
(* The properties.                                                         *)

\* a group is complete: name set, expected_count set, as many chunks as
\* expected_count says
Complete(g) ==
    /\ IsSome(g.name)
    /\ IsSome(g.expected)
    /\ Cardinality(DOMAIN g.packets) = Unwrap(g.expected)

\* C1: in every reachable store, the completion check is true iff the store
\* holds exactly 3 file_ids and every group in it is complete.
C1_DoneIffThreeComplete ==
    received_all_packets(files)
        <=> (/\ Cardinality(DOMAIN files) = 3
             /\ \A id \in DOMAIN files : Complete(files[id]))

\* C1 witness: a store with exactly three complete groups, on which the check
\* is true.
C1_Witness ==
    /\ received_all_packets(files)
    /\ Cardinality(DOMAIN files) = 3
    /\ \A id \in DOMAIN files : Complete(files[id])

\* C2: with each of the sender's packets applied exactly once, the completion
\* check is false while any packet is still to be applied and true once the
\* final packet has been applied.  Stated for the run with a file whose last
\* index is 65535.
C2_DoneExactlyAtEnd ==
    received_all_packets(files)
        <=> (pending = {} /\ LongCount = U16Max + 1)

\* C2 in the bounded protocol specification (last indices 0..MaxK): the check
\* is true exactly when no packet is left to apply.
C2_DoneExactlyAtEndBounded ==
    received_all_packets(files) <=> pending = {}

\* the bounded protocol runs reach the end with all three files complete
C2_BoundedWitness ==
    /\ pending = {}
    /\ received_all_packets(files)
    /\ \E id \in DOMAIN files : Cardinality(DOMAIN files[id].packets) = MaxK + 1

\* C3 as stated: once the completion check is true, no applied packet makes
\* it false.
C3_Monotonic ==
    [][received_all_packets(files) => received_all_packets(files')]_vars

\* packets to try on a store: either name, any chunk index in play and one
\* beyond, either flag, either payload
ProbePackets ==
    {HeaderPacket(id, nm) : id \in FileIds, nm \in {<<97>>, <<120, 121>>}}
    \cup {DataPacket(id, n, last, d) :
             id \in FileIds, n \in (0..(StoreMaxIdx + 1)) \cup {U16Max},
             last \in BOOLEAN, d \in {<<>>, <<42>>}}

\* a packet that adds nothing new to store fs: a Header for a file_id in the
\* store, or a Data packet whose file_id and chunk index are buffered and
\* which, when flagged last, carries the index expected_count - 1
Repeats(fs, p) ==
    /\ p.file_id \in DOMAIN fs
    /\ p.kind = "Data" =>
          /\ p.packet_number \in DOMAIN fs[p.file_id].packets
          /\ p.is_last_packet =>
                /\ IsSome(fs[p.file_id].expected)
                /\ p.packet_number + 1 = Unwrap(fs[p.file_id].expected)

\* C3 amended: once the completion check is true, applying a packet that
\* repeats a file_id and chunk index already buffered (with the last flag
\* only on index expected_count - 1) leaves it true.
C3_MonotonicUnderRepeats ==
    received_all_packets(files) =>
        \A p \in ProbePackets :
            Repeats(files, p) =>
                \A o \in process_packet(files, p) :
                    ~o.panicked /\ received_all_packets(o.files)

\* C3 witness: a done store and a repeating packet that changes it (a new
\* name or a new payload).
C3_Witness ==
    /\ received_all_packets(files)
    /\ \E p \in ProbePackets :
          /\ Repeats(files, p)
          /\ \E o \in process_packet(files, p) : o.files # files

\* C4: write_all_files is entered at most once and only when the completion
\* check holds; every group it is about to visit has a name, and the expect
\* on a missing name never panics.
C4_WriterOnceWhenDone ==
    /\ nwrites <= 1
    /\ nwrites = 1 => received_all_packets(files)
    /\ pc = "write" => \A id \in todo : IsSome(files[id].name)
    /\ pc # "panic_missing_name"

\* C4 witness: main returned Ok after the one call of the writer, with three
\* files on disk.
C4_Witness ==
    /\ pc = "done"
    /\ nwrites = 1
    /\ Cardinality(DOMAIN disk) = 3

\* the datagram in b did not decode
Failed(b) == IsSome(b) /\ ~try_from(Unwrap(b)).ok

\* C5: a step that receives a datagram which fails to decode ends the
\* session with the decode error and leaves the store as it was; no step
\* follows it, and no file exists.
C5_DecodeErrorAborts ==
    [][/\ Failed(buf') =>
            /\ pc' = "err_parse"
            /\ files' = files
            /\ disk' = <<>>
            /\ nwrites' = 0
       /\ pc = "err_parse" => UNCHANGED vars]_vars

\* C5 witness: the session aborted on a malformed datagram although two
\* files were complete and the third lacked one packet.
C5_Witness ==
    /\ pc = "err_parse"
    /\ Failed(buf)
    /\ Cardinality(DOMAIN files) = 3
    /\ Cardinality({id \in DOMAIN files : Complete(files[id])}) = 2
    /\ disk = <<>>

---------------------------------------------------------------------------
(* Properties stated over the record of applied packets.                   *)

\* positions in applied of the Data packets of file id
DataFor(id) ==
    {j \in 1..Len(applied) :
        applied[j].kind = "Data" /\ applied[j].file_id = id}

\* positions of the Data packets of file id with chunk index i
DataAt(id, i) == {j \in DataFor(id) : applied[j].packet_number = i}

\* the chunk indices applied for file id
IndicesOf(id) == {applied[j].packet_number : j \in DataFor(id)}

\* no two applied Data packets of file id share a chunk index
DistinctIdx(id) == \A i \in IndicesOf(id) : Cardinality(DataAt(id, i)) = 1

\* every chunk index the trace packets use, in ascending order
TraceIndices ==
    [i \in 1..(TraceMaxIdx + 2) |-> IF i <= TraceMaxIdx + 1 THEN i - 1 ELSE U16Max]

\* the payload of the only applied packet of file id with index i; nothing
\* when there is none
OnlyPayload(id, i) ==
    IF DataAt(id, i) = {} THEN <<>>
    ELSE applied[CHOOSE j \in DataAt(id, i) : TRUE].data

\* the payload of the last applied packet of file id with index i; nothing
\* when there is none
LastPayload(id, i) ==
    IF DataAt(id, i) = {} THEN <<>>
    ELSE applied[CHOOSE j \in DataAt(id, i) : \A k \in DataAt(id, i) : k <= j].data

RECURSIVE InIndexOrder(_, _, _)
\* Pay(id, index) for the n-th trace index onwards, concatenated
InIndexOrder(Pay(_, _), id, n) ==
    IF n > Len(TraceIndices) THEN <<>>
    ELSE Pay(id, TraceIndices[n]) \o InIndexOrder(Pay, id, n + 1)

\* the writer has created and fully written the file of group id
Written(id) == nwrites = 1 /\ id \in DOMAIN files /\ id \notin todo

\* C6: when the Data packets applied for a file have pairwise distinct chunk
\* indices, the file the writer produced holds their payloads in ascending
\* index order, whatever the order they were applied in.
C6_AscendingWhateverOrder ==
    \A id \in DOMAIN files :
        (Written(id) /\ DistinctIdx(id)) =>
            disk[Unwrap(files[id].name)] = InIndexOrder(OnlyPayload, id, 1)

\* C6 witness: a written file whose chunks, of different payloads, were
\* applied with a larger index before a smaller one.
C6_Witness ==
    \E id \in DOMAIN files :
        /\ Written(id) /\ DistinctIdx(id) /\ pc = "done"
        /\ \E j, k \in DataFor(id) :
              /\ j < k
              /\ applied[j].packet_number > applied[k].packet_number
              /\ applied[j].data # applied[k].data

\* C7: the chunks buffered for a file are exactly the indices applied for it,
\* one per index however often it was applied, each holding the payload of
\* the last packet applied with that index; the written file holds just
\* those payloads.
C7_LastPayloadWins ==
    \A id \in DOMAIN files :
        /\ DOMAIN files[id].packets = IndicesOf(id)
        /\ Cardinality(DOMAIN files[id].packets) = Cardinality(IndicesOf(id))
        /\ \A i \in IndicesOf(id) : files[id].packets[i] = LastPayload(id, i)
        /\ Written(id) =>
              disk[Unwrap(files[id].name)] = InIndexOrder(LastPayload, id, 1)

\* C7 witness: a written file for which one chunk index was applied twice
\* with different payloads.
C7_Witness ==
    \E id \in DOMAIN files :
        /\ Written(id) /\ pc = "done"
        /\ \E j, k \in DataFor(id) :
              /\ j < k
              /\ applied[j].packet_number = applied[k].packet_number
              /\ applied[j].data # applied[k].data
        /\ Cardinality(DOMAIN files[id].packets) < Cardinality(DataFor(id))

\* C8: after a Data packet flagged last has been applied, the group's
\* expected_count is its chunk index plus one, and nothing panicked.
C8_ExpectedIsIndexPlusOne ==
    applied # <<>> =>
        LET p == applied[Len(applied)]
        IN  (p.kind = "Data" /\ p.is_last_packet) =>
                /\ pc # "panic_overflow"
                /\ files[p.file_id].expected = Some(p.packet_number + 1)

\* C9 as stated: an expected_count that is set is never changed.
C9_SetOnce ==
    [][\A id \in DOMAIN files :
          IsSome(files[id].expected) =>
              files'[id].expected = files[id].expected]_vars

\* C9 amended: an expected_count that is set stays set, and changes only
\* when a Data packet flagged last is applied for the same file_id.
C9_ChangedOnlyByLast ==
    [][\A id \in DOMAIN files :
          IsSome(files[id].expected) =>
              /\ IsSome(files'[id].expected)
              /\ files'[id].expected # files[id].expected =>
                    /\ applied' # applied
                    /\ LET p == applied'[Len(applied')]
                       IN  /\ p.kind = "Data"
                           /\ p.is_last_packet
                           /\ p.file_id = id]_vars

\* C9 witness: two Data packets flagged last, with different indices, were
\* applied for one file, and its expected_count is that of the later one.
C9_Witness ==
    \E id \in DOMAIN files :
        \E j, k \in DataFor(id) :
            /\ j < k /\ k = Len(applied)
            /\ applied[j].is_last_packet /\ applied[k].is_last_packet
            /\ applied[j].packet_number + 1 < applied[k].packet_number + 1
            /\ applied[k].packet_number < U16Max
            /\ files[id].expected = Some(applied[k].packet_number + 1)

\* C10: no step removes a file_id or a chunk index, or unsets a name or an
\* expected_count.
C10_Accumulates ==
    [][/\ DOMAIN files \subseteq DOMAIN files'
       /\ \A id \in DOMAIN files :
             /\ DOMAIN files[id].packets \subseteq DOMAIN files'[id].packets
             /\ IsSome(files[id].name) => IsSome(files'[id].name)
             /\ IsSome(files[id].expected) => IsSome(files'[id].expected)]_vars

\* C10 witness: a store of several groups, one of them with a name, an
\* expected_count and two chunks.
C10_Witness ==
    /\ Cardinality(DOMAIN files) >= 2
    /\ \E id \in DOMAIN files :
          /\ IsSome(files[id].name)
          /\ IsSome(files[id].expected)
          /\ Cardinality(DOMAIN files[id].packets) = 2

---------------------------------------------------------------------------
(* SpecFair: main fed by a lossless source that may reorder and repeat.    *)
(* pending holds the source's datagrams, fixed for the run: for three      *)
(* file_ids, the Header and the Data datagrams 0..k with only k flagged    *)
(* last.  No receive, flush or storage call fails.                         *)

\* the datagrams the source sends for file id with last index k
SourceDatagrams(id, k) ==
    {<<0, id>> \o NameOf(id)}
    \cup {<<(IF n = k THEN 3 ELSE 1), id, n \div 256, n % 256, 10 * id + n>> :
             n \in 0..k}

\* every datagram some source of the specification sends
FairDatagrams ==
    UNION {SourceDatagrams(id, k) : id \in FileIds, k \in 0..SessMaxIdx}

InitFair ==
    /\ files = <<>>
    /\ pc = "loop"
    /\ buf = None
    /\ todo = {}
    /\ disk = <<>>
    /\ nwrites = 0
    /\ applied = <<>>
    /\ \E ids \in SUBSET FileIds :
          /\ Cardinality(ids) = ExpectedFiles
          /\ \E k \in [ids -> 0..SessMaxIdx] :
                pending = UNION {SourceDatagrams(id, k[id]) : id \in ids}

\* one full iteration of the loop on datagram d of the source, which stays
\* available to be delivered again
FairDeliver(d) ==
    /\ pc = "loop" /\ LoopCond(files)
    /\ d \in pending
    /\ try_from(d).ok
    /\ buf' = Some(d)
    /\ \E o \in process_packet(files, try_from(d).packet) :
          /\ files' = o.files
          /\ pc' = IF o.panicked THEN "panic_overflow" ELSE "loop"
    /\ UNCHANGED <<todo, disk, nwrites, applied, pending>>

FairReceive == \E d \in FairDatagrams : FairDeliver(d)

NextFair ==
    \/ FairReceive
    \/ CallWriter
    \/ WriteFile
    \/ WriteReturn

\* the source is fair: a datagram that can still change something is
\* delivered eventually; main itself keeps running
SpecFair ==
    /\ InitFair
    /\ [][NextFair]_vars
    /\ \A d \in FairDatagrams : WF_vars(FairDeliver(d))
    /\ WF_vars(CallWriter)
    /\ WF_vars(WriteFile)
    /\ WF_vars(WriteReturn)

\* C11 for last indices 0..SessMaxIdx: the session eventually leaves the
\* loop, writes the three files and returns Ok.
C11_TerminatesBounded ==
    <>(/\ pc = "done"
       /\ nwrites = 1
       /\ \A d \in pending :
             try_from(d).packet.file_id \in DOMAIN files
       /\ \A id \in DOMAIN files :
             /\ Complete(files[id])
             /\ Unwrap(files[id].name) \in DOMAIN disk
             /\ disk[Unwrap(files[id].name)] = FileBytes(files[id]))

\* the bounded fair runs end with Ok after a datagram was delivered again
C11_BoundedWitness ==
    /\ pc = "done"
    /\ pending # {}
    /\ Cardinality(DOMAIN disk) = ExpectedFiles

\* C11: with a lossless source the loop runs until the completion check is
\* true, so the session has not stopped, and once every packet of the source
\* has been applied the loop condition is false and main goes on to write.
\* Stated for the run with a file whose last index is 65535.
C11_LoopEndsWhenSourceIsExhausted ==
    /\ pc = "loop"
    /\ (pending = {} /\ LongCount = U16Max + 1) => ~LoopCond(files)

\* the groups write_all_files has visited without a failure
Visited == DOMAIN files \ todo

\* C12: when creating or writing a group's file fails, write_all_files returns
\* the error at once: the failing step touches no file but the failing
\* group's, every file written before is left as it is, and no step follows
\* (nothing is created or written for the groups not yet visited).
C12_WriterFailureStops ==
    [][/\ pc # "err_io"
       /\ (pc = "write" /\ pc' = "err_io") =>
             /\ \E id \in todo :
                   /\ IsSome(files[id].name)
                   /\ \A nm \in (DOMAIN disk') \ {Unwrap(files[id].name)} :
                         nm \in DOMAIN disk /\ disk'[nm] = disk[nm]
             /\ \A id \in Visited :
                   /\ Unwrap(files[id].name) \in DOMAIN disk'
                   /\ disk'[Unwrap(files[id].name)] = FileBytes(files[id])
             /\ UNCHANGED <<files, todo>>]_vars

\* the writer failed on the second of three groups: one file is written in
\* full, the failing one was created, the third group has no file
C12_Witness ==
    /\ pc = "err_io"
    /\ \E a \in Visited : \E b, c \in todo :
          /\ b # c
          /\ disk[Unwrap(files[a].name)] = FileBytes(files[a])
          /\ FileBytes(files[a]) # <<>>
          /\ Unwrap(files[b].name) \in DOMAIN disk
          /\ Unwrap(files[c].name) \notin DOMAIN disk

---------------------------------------------------------------------------
(* SpecDecode: one call of Packet::try_from on a received datagram, as in  *)
(* the first iteration of main's loop.  buf holds the input; a decoded     *)
(* packet is recorded in applied, a failure ends main with the parse error.*)

\* longest input of the decoder specification
DecodeMaxLen == 5

\* status bytes: every value of the two low bits, with and without high bits
StatusBytes == {0, 1, 2, 3, 4, 7, 253, 254}
\* the other bytes: ASCII, the two bytes of a two-byte UTF-8 character, and
\* bytes that never occur in UTF-8
OtherBytes == {0, 65, 169, 195, 255}

RECURSIVE BytesOfLen(_)
BytesOfLen(n) ==
    IF n = 0 THEN {<<>>}
    ELSE {Append(b, x) : b \in BytesOfLen(n - 1), x \in OtherBytes}

DecodeInputs ==
    {<<>>} \cup UNION {{<<s>> \o b : s \in StatusBytes, b \in BytesOfLen(n)} :
                          n \in 0..(DecodeMaxLen - 1)}

InitDecode ==
    /\ files = <<>>
    /\ pc = "decode"
    /\ buf \in {Some(d) : d \in DecodeInputs}
    /\ todo = {}
    /\ disk = <<>>
    /\ nwrites = 0
    /\ applied = <<>>
    /\ pending = {}

\* buf[..len].try_into() returns Ok(packet)
DecodeOk ==
    /\ pc = "decode"
    /\ try_from(Unwrap(buf)).ok
    /\ applied' = <<try_from(Unwrap(buf)).packet>>
    /\ pc' = "decoded"
    /\ UNCHANGED <<files, buf, todo, disk, nwrites, pending>>

\* buf[..len].try_into() returns Err: `?` ends main
DecodeFail ==
    /\ pc = "decode"
    /\ ~try_from(Unwrap(buf)).ok
    /\ pc' = "err_parse"
    /\ UNCHANGED <<files, buf, todo, disk, nwrites, applied, pending>>

NextDecode == DecodeOk \/ DecodeFail

SpecDecode == InitDecode /\ [][NextDecode]_vars

\* the input of the call, its status byte, and the packet it returned
Input == Unwrap(buf)
Status == Input[1]
Decoded == applied[1]

\* C13: decoding fails for every input shorter than 2 bytes and for every
\* input of length 2 or 3 with an odd status byte; an input of length 2 with
\* an even status byte decodes to a Header with an empty name, an odd-status
\* input of length 4 to a Data packet with an empty payload.
C13_ShortInputs ==
    pc # "decode" =>
       /\ Len(Input) < 2 => pc = "err_parse"
       /\ (Len(Input) \in {2, 3} /\ Status % 2 = 1) => pc = "err_parse"
       /\ (Len(Input) = 2 /\ Status % 2 = 0) =>
             /\ pc = "decoded"
             /\ Decoded.kind = "Header" /\ Decoded.file_name = <<>>
       /\ (Len(Input) = 4 /\ Status % 2 = 1) =>
             /\ pc = "decoded"
             /\ Decoded.kind = "Data" /\ Decoded.data = <<>>

\* an odd-status input of three bytes was refused
C13_Witness ==
    pc = "err_parse" /\ Len(Input) = 3 /\ Status % 2 = 1

\* C14: an odd-status input of at least 4 bytes decodes to a Data packet with
\* file_id = byte 1, chunk index = 256 * byte 2 + byte 3, payload = the bytes
\* from offset 4, and is_last iff status mod 4 = 3; an even-status input of
\* at least 2 bytes whose remainder is valid UTF-8 decodes to a Header with
\* file_id = byte 1 and name = the bytes from offset 2.
C14_FieldMapping ==
    pc # "decode" =>
       /\ (Len(Input) >= 4 /\ Status % 2 = 1) =>
             /\ pc = "decoded"
             /\ Decoded = [kind |-> "Data",
                           file_id |-> Input[2],
                           packet_number |-> 256 * Input[3] + Input[4],
                           is_last_packet |-> (Status % 4 = 3),
                           data |-> SubSeq(Input, 5, Len(Input))]
       /\ (Len(Input) >= 2 /\ Status % 2 = 0
              /\ ValidUtf8(SubSeq(Input, 3, Len(Input)))) =>
             /\ pc = "decoded"
             /\ Decoded = [kind |-> "Header",
                           file_id |-> Input[2],
                           file_name |-> SubSeq(Input, 3, Len(Input))]

\* a last-flagged data datagram with a payload, whose two index bytes differ,
\* was decoded
C14_Witness ==
    /\ pc = "decoded"
    /\ Decoded.kind = "Data"
    /\ Decoded.is_last_packet
    /\ Decoded.data # <<>>
    /\ Input[3] # Input[4]

\* the inputs that differ from Input at most in bits 2..7 of byte 0
HighBitVariants ==
    {[Input EXCEPT ![1] = s] : s \in {x \in 0..255 : x % 4 = Status % 4}}

\* C15: the result depends on the status byte only through its two low
\* bits: every input that differs from the decoded one only in bits 2..7 of
\* byte 0 decodes to the same packet, or fails when it failed.
C15_OnlyLowBits ==
    (pc # "decode" /\ Input # <<>>) =>
       \A d \in HighBitVariants :
          IF pc = "decoded"
          THEN try_from(d).ok /\ try_from(d).packet = Decoded
          ELSE ~try_from(d).ok

\* a last-flagged data datagram whose status byte has high bits set was
\* decoded
C15_Witness ==
    /\ pc = "decoded"
    /\ Status >= 4
    /\ Decoded.kind = "Data"
    /\ Decoded.is_last_packet

\* the group of file_id f before a packet for f is applied: the stored one,
\* or the empty group that is created for it
GroupBefore(f) == IF f \in DOMAIN files THEN files[f] ELSE DefaultGroup

\* C16: applying a packet with file_id f creates group f with all fields
\* empty when it is absent, whatever the packet's kind, and changes only
\* group f: every other group is unchanged, a Header leaves f's chunks and
\* expected count as they were, a Data packet leaves f's name as it was, and
\* a Data packet that is not flagged last leaves f's expected count as it was.
C16_Frame ==
    [][applied' # applied =>
          LET p == applied'[Len(applied')]
              f == p.file_id
          IN  /\ DOMAIN files' = (DOMAIN files) \cup {f}
              /\ \A id \in (DOMAIN files) \ {f} : files'[id] = files[id]
              /\ p.kind = "Header" =>
                    /\ files'[f].packets = GroupBefore(f).packets
                    /\ files'[f].expected = GroupBefore(f).expected
              /\ p.kind = "Data" =>
                    /\ files'[f].name = GroupBefore(f).name
                    /\ ~p.is_last_packet =>
                          files'[f].expected = GroupBefore(f).expected]_vars

\* a Data packet that is not flagged last has created the second group of a
\* store whose first group has a name
C16_Witness ==
    /\ Len(applied) >= 2
    /\ LET p == applied[Len(applied)]
       IN  /\ p.kind = "Data" /\ ~p.is_last_packet
           /\ \A i \in 1..(Len(applied) - 1) : applied[i].file_id # p.file_id
           /\ files[p.file_id] =
                 [DefaultGroup EXCEPT !.packets = (p.packet_number :> p.data)]
           /\ \E id \in (DOMAIN files) \ {p.file_id} : IsSome(files[id].name)

---------------------------------------------------------------------------
(* SpecSource: a source that, for each file, flags exactly one index k as  *)
(* last and sends no chunk index above k.  Its packets are applied in any  *)
(* order and any number of times; write_all_files may be called on the     *)
(* store as it stands.                                                     *)

SourceIds == TraceIds

\* the chunk indices the source may use, and the last indices it may choose
SourceIndices == (0..MaxK) \cup {U16Max}

\* the packets of the source for one file with last index k: the header,
\* every index up to k unflagged, and index k flagged last
SourcePackets(id, k) ==
    {HeaderPacket(id, NameOf(id))}
    \cup {DataPacket(id, n, FALSE, <<n % 256>>) : n \in {i \in SourceIndices : i <= k}}
    \cup {DataPacket(id, k, TRUE, <<k % 256>>)}

InitSource ==
    /\ files = <<>>
    /\ pc = "loop"
    /\ buf = None
    /\ todo = {}
    /\ disk = <<>>
    /\ nwrites = 0
    /\ applied = <<>>
    /\ \E k \in [SourceIds -> SourceIndices] :
          pending = UNION {SourcePackets(id, k[id]) : id \in SourceIds}

\* process_packet on any packet of the source, for the first time or again
SourceApply ==
    /\ pc = "loop"
    /\ \E p \in pending :
          \E o \in process_packet(files, p) :
             /\ files' = o.files
             /\ pc' = IF o.panicked THEN "panic_overflow" ELSE "loop"
    /\ UNCHANGED <<buf, todo, disk, nwrites, applied, pending>>

NextSource ==
    \/ SourceApply
    \/ TraceCallWriter
    \/ WriteCreateError
    \/ WriteChunkError
    \/ WriteFile
    \/ WriteReturn

SpecSource == InitSource /\ [][NextSource]_vars

\* the index the source flags last for file id
SourceLast(id) ==
    LET p == CHOOSE q \in pending :
                q.kind = "Data" /\ q.file_id = id /\ q.is_last_packet
    IN  p.packet_number

\* C17: with such a source, a complete group buffers exactly the indices
\* 0 .. expected_count - 1, which are all the chunks 0 .. k of the file, and
\* the file written for it holds the payloads of chunks 0 .. k in that order.
C17_CompleteHasNoGap ==
    \A id \in DOMAIN files :
       Complete(files[id]) =>
          /\ DOMAIN files[id].packets = 0..(Unwrap(files[id].expected) - 1)
          /\ DOMAIN files[id].packets = 0..SourceLast(id)
          /\ (nwrites > 0 /\ id \notin todo) =>
                disk[Unwrap(files[id].name)] =
                   [i \in 1..(SourceLast(id) + 1) |-> (i - 1) % 256]

\* the file of a complete group of at least two chunks has been written
C17_Witness ==
    /\ nwrites > 0
    /\ \E id \in (DOMAIN files) \ todo :
          /\ Complete(files[id])
          /\ Unwrap(files[id].expected) >= 2
          /\ Len(disk[Unwrap(files[id].name)]) >= 2

\* C18: once the completion check is true no datagram is received or
\* applied: every later step leaves the receive buffer and the store as they
\* are, so the check stays true and the writer reads the store in which the
\* check first held.
C18_NothingAfterDone ==
    [][received_all_packets(files) =>
          /\ buf' = buf
          /\ files' = files
          /\ received_all_packets(files')
          /\ pc' \in {"write", "done", "err_io"}]_vars

\* the writer is visiting the groups of the store that the last datagram
\* received has completed
C18_Witness ==
    /\ pc = "write"
    /\ todo # {} /\ todo # DOMAIN files
    /\ received_all_packets(files)
    /\ IsSome(buf)
    /\ try_from(Unwrap(buf)).packet.file_id \in DOMAIN files

\* the store holds more than three file_ids
TooManyFiles(fs) == Cardinality(DOMAIN fs) > ExpectedFiles

\* C19: once the store holds more than three file_ids it holds them for
\* good and the completion check is false in every state from then on: the
\* writer is never entered, no file exists, and main is in its loop or has
\* ended with an error or a panic.
C19_FourthFileNeverDone ==
    [][/\ TooManyFiles(files) => TooManyFiles(files')
       /\ TooManyFiles(files') =>
             /\ ~received_all_packets(files')
             /\ nwrites' = 0
             /\ disk' = <<>>
             /\ pc' \in {"loop", "err_io", "err_parse", "panic_overflow"}]_vars

\* a session with four groups, three of them complete, has ended with an
\* error
C19_Witness ==
    /\ TooManyFiles(files)
    /\ pc \in {"err_io", "err_parse"}
    /\ Cardinality({id \in DOMAIN files : Complete(files[id])}) = ExpectedFiles

====
